---- MODULE Spec2Model ----
(***************************************************************************)
(* The LRU cache of cjsaylor/goutil.  The repository holds two Cache       *)
(* implementations: src/lru/lru.go ("lru") and src/unnamed/part_000        *)
(* ("v2").  The variable impl says which one a behaviour runs.             *)
(*                                                                         *)
(* A list.Element is modelled by its identity (a positive number); queue   *)
(* is the container/list of element identities, front first; val is the    *)
(* Value field (an entry) of every live element; lookup is the Go map from *)
(* key to element.                                                         *)
(***************************************************************************)
EXTENDS Integers, Sequences, FiniteSets, TLC

\* ------------------------------------------------------------------ bounds
MaxCap == 3

Keys == {"a", "b", "c"}
Values == {"foo", "bar"}
Impls == {"lru", "v2"}
Capacities == 0..MaxCap

\* The concurrent callers, and what they call the cache with.
MaxConcCap == 1
Callers == {1, 2}
ConcKeys == {"a", "b"}
ConcValues == {"foo"}
ConcCapacities == 1..MaxConcCap

\* The largest capacity of a cache of part_000 shared by concurrent callers.
MaxLockedCap == 2

VARIABLES
    impl,        \* which source file's Cache: "lru" or "v2"
    capacity,    \* Cache.capacity
    queue,       \* Cache.queue: sequence of element identities, front first
    val,         \* Element.Value of every live element: [key, value]
    lookup,      \* Cache.lookup: function from the keys present to elements
    mutex,       \* Cache.mutex: 0 when unlocked, else the holder
    last,        \* the last completed call: its name, arguments and results
    evictions,   \* the onEviction invocations of the last call, in order
    accessOrder, \* keys by last access (Set, or Get that found), newest first
    script,      \* the calls so far, while they follow one of the test scripts
    callers      \* per concurrent caller: where it is in its call, its locals

vars == <<impl, capacity, queue, val, lookup, mutex, last, evictions,
          accessOrder, script, callers>>

\* ------------------------------------------------------ values and entries
entry(k, v) == [key |-> k, value |-> v]

\* A Go interface{} result: nil, a caller's value, or a *entry.
NilValue == [kind |-> "nil", key |-> "", value |-> ""]
PlainValue(v) == [kind |-> "value", key |-> "", value |-> v]
EntryPtr(e) == [kind |-> "entry", key |-> e.key, value |-> e.value]

\* --------------------------------------------------------- container/list
Without(q, e) == SelectSeq(q, LAMBDA x : x # e)

InList(q, e) == \E i \in 1..Len(q) : q[i] = e

\* A PushFront that inserts at the back.
PushBack(q, e) == Append(q, e)

PushFront(q, e) == <<e>> \o q

\* list.MoveToFront and list.Remove do nothing for an element of no list.
MoveToFront(q, e) == IF InList(q, e) THEN <<e>> \o Without(q, e) ELSE q

ListRemove(q, e) == IF InList(q, e) THEN Without(q, e) ELSE q

\* A Back that returns the front element.
BackIsFront(q) == q[1]

Back(q) == q[Len(q)]

\* ------------------------------------------------------------- the map
Range(f) == {f[x] : x \in DOMAIN f}

MapSet(m, k, e) == [x \in DOMAIN m \cup {k} |-> IF x = k THEN e ELSE m[x]]

MapDelete(m, k) == [x \in DOMAIN m \ {k} |-> m[x]]

\* ------------------------------------------------------------ allocation
\* A new element takes the smallest identity no live element has.
NewElement(live) ==
    CHOOSE i \in 1..(Cardinality(live) + 1) :
        /\ i \notin live
        /\ \A j \in 1..(i - 1) : j \in live

\* The place of element e of q in q.
IndexOf(q, e) == CHOOSE i \in 1..Len(q) : q[i] = e

\* Element identities are pointers: only their equalities matter.  Between
\* calls the live elements are renamed to their places in the list (an
\* element the map alone still refers to comes after them, in the old order).
Rank(q, lk, e) ==
    IF InList(q, e) THEN IndexOf(q, e)
    ELSE Len(q) + Cardinality({d \in Range(lk) : ~InList(q, d) /\ d <= e})

\* Elements no longer reachable from the list or the map are collected.
Live(q, lk) == Range(q) \cup Range(lk)

\* A cache value: the three mutable fields of Cache.
CacheOf(q, vl, lk) == [queue |-> q, val |-> vl, lookup |-> lk]

Result(q, vl, lk, ev, r, ok) ==
    [queue   |-> [i \in 1..Len(q) |-> Rank(q, lk, q[i])],
     val     |-> [n \in {Rank(q, lk, e) : e \in Live(q, lk)} |->
                    vl[CHOOSE e \in Live(q, lk) : Rank(q, lk, e) = n]],
     lookup  |-> [k \in DOMAIN lk |-> Rank(q, lk, lk[k])],
     evicted |-> ev, ret |-> r, ok |-> ok, keys |-> <<>>]

\* ------------------------------------------------------------ operations
\* A removeOldest that does not invoke onEviction.
removeOldestSilent(c) ==
    IF Len(c.queue) = 0
    THEN Result(c.queue, c.val, c.lookup, <<>>, NilValue, FALSE)
    ELSE LET tail == Back(c.queue)
         IN  Result(ListRemove(c.queue, tail), c.val,
                    MapDelete(c.lookup, c.val[tail].key), <<>>,
                    PlainValue(c.val[tail].value), TRUE)

\* removeOldest (part_000) and the body of RemoveOldest (lru.go).
removeOldest(c) ==
    IF Len(c.queue) = 0
    THEN Result(c.queue, c.val, c.lookup, <<>>, NilValue, FALSE)
    ELSE LET tail == Back(c.queue)
             q    == ListRemove(c.queue, tail)
             lk   == MapDelete(c.lookup, c.val[tail].key)
         IN  Result(q, c.val, lk, <<c.val[tail]>>,
                    PlainValue(c.val[tail].value), TRUE)

\* A Set insertion that never evicts the entry it has just inserted.
SetInsertKeepsNewest(c, cap, k, v) ==
    LET item == NewElement(DOMAIN c.val)
        q    == PushFront(c.queue, item)
        vl   == [e \in DOMAIN c.val \cup {item} |->
                    IF e = item THEN entry(k, v) ELSE c.val[e]]
        lk   == MapSet(c.lookup, k, item)
    IN  IF Len(q) > cap /\ Len(q) > 1
        THEN LET r == removeOldest(CacheOf(q, vl, lk))
             IN  Result(r.queue, r.val, r.lookup, r.evicted, NilValue, FALSE)
        ELSE Result(q, vl, lk, <<>>, NilValue, FALSE)

\* A Set insertion whose capacity test is off by one.
SetInsertOffByOne(c, cap, k, v) ==
    LET item == NewElement(DOMAIN c.val)
        q    == PushFront(c.queue, item)
        vl   == [e \in DOMAIN c.val \cup {item} |->
                    IF e = item THEN entry(k, v) ELSE c.val[e]]
        lk   == MapSet(c.lookup, k, item)
    IN  IF Len(q) > cap + 1
        THEN LET r == removeOldest(CacheOf(q, vl, lk))
             IN  Result(r.queue, r.val, r.lookup, r.evicted, NilValue, FALSE)
        ELSE Result(q, vl, lk, <<>>, NilValue, FALSE)

\* The insertion both Set bodies end with.
SetInsert(c, cap, k, v) ==
    LET item == NewElement(DOMAIN c.val)
        q    == PushFront(c.queue, item)
        vl   == [e \in DOMAIN c.val \cup {item} |->
                    IF e = item THEN entry(k, v) ELSE c.val[e]]
        lk   == MapSet(c.lookup, k, item)
    IN  IF Len(q) > cap
        THEN LET r == removeOldest(CacheOf(q, vl, lk))
             IN  Result(r.queue, r.val, r.lookup, r.evicted, NilValue, FALSE)
        ELSE Result(q, vl, lk, <<>>, NilValue, FALSE)

\* The update of a present key, common to both Set bodies.
SetUpdate(c, k, v) ==
    LET item == c.lookup[k]
    IN  CacheOf(MoveToFront(c.queue, item),
                [c.val EXCEPT ![item] = entry(k, v)],
                c.lookup)

\* Set of part_000: a present key is updated and the call returns.
SetV2(c, cap, k, v) ==
    IF k \in DOMAIN c.lookup
    THEN LET u == SetUpdate(c, k, v)
         IN  Result(u.queue, u.val, u.lookup, <<>>, NilValue, FALSE)
    ELSE SetInsert(c, cap, k, v)

\* A Set of lru.go that returns after the update of a present key.
SetLruReturns(c, cap, k, v) ==
    IF k \in DOMAIN c.lookup
    THEN LET u == SetUpdate(c, k, v)
         IN  Result(u.queue, u.val, u.lookup, <<>>, NilValue, FALSE)
    ELSE SetInsert(c, cap, k, v)

\* Set of lru.go: after the update of a present key the call goes on.
SetLru(c, cap, k, v) ==
    IF k \in DOMAIN c.lookup
    THEN SetInsert(SetUpdate(c, k, v), cap, k, v)
    ELSE SetInsert(c, cap, k, v)

SetResult(im, c, cap, k, v) ==
    IF im = "v2" THEN SetV2(c, cap, k, v) ELSE SetLru(c, cap, k, v)

\* A Get that does not move the entry to the front.
GetResultNoBump(c, k) ==
    IF k \in DOMAIN c.lookup
    THEN Result(c.queue, c.val, c.lookup, <<>>, EntryPtr(c.val[c.lookup[k]]), TRUE)
    ELSE Result(c.queue, c.val, c.lookup, <<>>, NilValue, FALSE)

\* Get returns item.Value, the *entry itself.
GetResult(c, k) ==
    IF k \in DOMAIN c.lookup
    THEN LET item == c.lookup[k]
         IN  Result(MoveToFront(c.queue, item), c.val, c.lookup, <<>>,
                    EntryPtr(c.val[item]), TRUE)
    ELSE Result(c.queue, c.val, c.lookup, <<>>, NilValue, FALSE)

\* A Remove that evicts the oldest entry when the key is absent.
RemoveResultEvictsOnMiss(c, k) ==
    IF k \in DOMAIN c.lookup
    THEN LET item == c.lookup[k]
         IN  Result(ListRemove(c.queue, item), c.val, MapDelete(c.lookup, k),
                    <<>>, PlainValue(c.val[item].value), TRUE)
    ELSE removeOldest(c)

\* A Remove that leaves the key in the map.
RemoveResultKeepsIndex(c, k) ==
    IF k \in DOMAIN c.lookup
    THEN LET item == c.lookup[k]
         IN  Result(ListRemove(c.queue, item), c.val, c.lookup,
                    <<>>, PlainValue(c.val[item].value), TRUE)
    ELSE Result(c.queue, c.val, c.lookup, <<>>, NilValue, FALSE)

RemoveResult(c, k) ==
    IF k \in DOMAIN c.lookup
    THEN LET item == c.lookup[k]
         IN  Result(ListRemove(c.queue, item), c.val, MapDelete(c.lookup, k),
                    <<>>, PlainValue(c.val[item].value), TRUE)
    ELSE Result(c.queue, c.val, c.lookup, <<>>, NilValue, FALSE)

\* A ListKeys that walks the list from the back.
ListKeysResultReversed(c) ==
    [Result(c.queue, c.val, c.lookup, <<>>, NilValue, FALSE)
        EXCEPT !.keys = [i \in 1..Len(c.queue) |->
                            c.val[c.queue[Len(c.queue) + 1 - i]].key]]

ListKeysResult(c) ==
    [Result(c.queue, c.val, c.lookup, <<>>, NilValue, FALSE)
        EXCEPT !.keys = [i \in 1..Len(c.queue) |-> c.val[c.queue[i]].key]]

\* ------------------------------------------------------- calls and scripts
Call(op, k, v) == [op |-> op, key |-> k, value |-> v]

\* The call sequences of the test functions (operation and key of each call).
TestScripts ==
    { <<<<"Set", "a">>, <<"Set", "b">>>>,
      <<<<"Set", "a">>, <<"Set", "b">>, <<"Set", "a">>, <<"Get", "b">>>>,
      <<<<"Set", "a">>, <<"Set", "b">>, <<"Set", "a">>, <<"Set", "c">>,
        <<"Get", "b">>>>,
      <<<<"Set", "a">>, <<"Set", "b">>, <<"Get", "a">>, <<"Set", "c">>,
        <<"Get", "b">>, <<"Get", "a">>, <<"Get", "c">>>>,
      <<<<"Set", "a">>, <<"Remove", "a">>, <<"Get", "a">>>>,
      <<<<"Set", "a">>, <<"Set", "b">>, <<"Set", "c">>, <<"RemoveOldest", "">>>>,
      <<<<"Set", "a">>, <<"Set", "b">>, <<"Set", "c">>, <<"ListKeys", "">>,
        <<"ListKeys", "">>>> }

Untracked == <<Call("other", "", "")>>

IsPrefix(s, t) ==
    /\ Len(s) <= Len(t)
    /\ \A i \in 1..Len(s) : s[i] = t[i]

Shape(s) == [i \in 1..Len(s) |-> <<s[i].op, s[i].key>>]

\* The calls of TestRemoveOldest with any number of keys: Sets of distinct
\* keys, then RemoveOldest calls, at most one more than there were Sets.
Sets(sh) == {i \in 1..Len(sh) : sh[i][1] = "Set"}

IsFifo(sh) ==
    LET n == Cardinality(Sets(sh))
    IN  /\ Sets(sh) = 1..n
        /\ \A i, j \in 1..n : i # j => sh[i][2] # sh[j][2]
        /\ \A i \in (n + 1)..Len(sh) : sh[i] = <<"RemoveOldest", "">>
        /\ Len(sh) <= 2 * n + 1

\* The script goes on while the calls are the first calls of some test.
Track(s, call) ==
    IF /\ s # Untracked
       /\ \/ \E t \in TestScripts : IsPrefix(Shape(Append(s, call)), t)
          \/ IsFifo(Shape(Append(s, call)))
    THEN Append(s, call)
    ELSE Untracked

\* k becomes the most recently accessed key.
Touch(order, k) == <<k>> \o Without(order, k)

\* -------------------------------------------------------------- the mutex
\* A ListKeys that does not take c.mutex.
LocksButListKeys(im, op) == (im = "v2" /\ op # "ListKeys") \/ op = "Set"

\* Which public methods take c.mutex: all of part_000, only Set of lru.go.
Locks(im, op) == im = "v2" \/ op = "Set"

CanEnter(im, op) == Locks(im, op) => mutex = 0

Cache == CacheOf(queue, val, lookup)

\* No call is suspended in a callback.
NoFrame == [pc |-> "none", op |-> "", key |-> "", value |-> "", item |-> 0,
            evicted |-> <<>>, ret |-> <<>>, i |-> 0]

\* A caller that is in no call.
Idle == [pc |-> "idle", op |-> "", key |-> "", value |-> "", item |-> 0,
         evicted |-> <<>>, ret |-> <<>>, i |-> 0, outer |-> NoFrame]

\* ----------------------------------------------------------------- Init
Init ==
    /\ impl \in Impls
    /\ capacity \in Capacities
    /\ queue = <<>>
    /\ val = <<>>
    /\ lookup = <<>>
    /\ mutex = 0
    /\ last = [op |-> "NewCache", key |-> "", value |-> "",
               ret |-> NilValue, ok |-> FALSE, keys |-> <<>>]
    /\ evictions = <<>>
    /\ accessOrder = <<>>
    /\ script = <<>>
    /\ callers = [t \in Callers |-> Idle]

\* The assignments every completed call makes from its result r.
Complete(call, r) ==
    /\ queue' = r.queue
    /\ val' = r.val
    /\ lookup' = r.lookup
    /\ evictions' = r.evicted
    /\ last' = [op |-> call.op, key |-> call.key, value |-> call.value,
                ret |-> r.ret, ok |-> r.ok, keys |-> r.keys]
    /\ script' = Track(script, call)
    /\ UNCHANGED <<impl, capacity, mutex, callers>>

Set(k, v) ==
    /\ CanEnter(impl, "Set")
    /\ Complete(Call("Set", k, v), SetResult(impl, Cache, capacity, k, v))
    /\ accessOrder' = Touch(accessOrder, k)

Get(k) ==
    /\ CanEnter(impl, "Get")
    /\ Complete(Call("Get", k, ""), GetResult(Cache, k))
    /\ accessOrder' = IF GetResult(Cache, k).ok THEN Touch(accessOrder, k)
                      ELSE accessOrder

Remove(k) ==
    /\ CanEnter(impl, "Remove")
    /\ Complete(Call("Remove", k, ""), RemoveResult(Cache, k))
    /\ UNCHANGED accessOrder

RemoveOldest ==
    /\ CanEnter(impl, "RemoveOldest")
    /\ Complete(Call("RemoveOldest", "", ""), removeOldest(Cache))
    /\ UNCHANGED accessOrder

\* ListKeys exists in part_000 only.
ListKeys ==
    /\ impl = "v2"
    /\ CanEnter(impl, "ListKeys")
    /\ Complete(Call("ListKeys", "", ""), ListKeysResult(Cache))
    /\ UNCHANGED accessOrder

Next ==
    \/ \E k \in Keys, v \in Values : Set(k, v)
    \/ \E k \in Keys : Get(k)
    \/ \E k \in Keys : Remove(k)
    \/ RemoveOldest
    \/ ListKeys

Spec == Init /\ [][Next]_vars

\* The Cache of part_000 alone.
InitV2 == Init /\ impl = "v2"

SpecV2 == InitV2 /\ [][Next]_vars

\* The Cache of lru.go alone, which has no ListKeys.
InitLru == Init /\ impl = "lru"

NextLru ==
    \/ \E k \in Keys, v \in Values : Set(k, v)
    \/ \E k \in Keys : Get(k)
    \/ \E k \in Keys : Remove(k)
    \/ RemoveOldest

SpecLru == InitLru /\ [][NextLru]_vars

TypeOK ==
    /\ impl \in Impls
    /\ capacity \in Capacities
    /\ mutex \in {0} \cup Callers

\* -------------------------------------------------------- concurrent calls
\* The same methods, one statement a step, called by several goroutines.  A
\* caller's pc names the statement it executes next; item is its local
\* variable item (tail in removeOldest), 0 for nil; ret and i are the locals
\* of ListKeys ("" is a slot not yet written); outer is the call that waits
\* in c.onEviction while the callback itself calls the cache.

\* The first statement of a method's body after the Lock, if it has one.
Entry(op) ==
    CASE op = "Set" -> "set_find"
      [] op = "Get" -> "get_find"
      [] op = "Remove" -> "rm_find"
      [] op = "RemoveOldest" -> "ro_len"
      [] op = "ListKeys" -> "lk_make"

\* The statements that read or write c.queue, c.lookup or an element.
AccessPcs ==
    {"set_find", "set_move", "set_value", "set_push", "set_store", "set_len",
     "get_find", "get_move", "rm_find", "rm_remove", "rm_delete",
     "ro_len", "ro_back", "ro_remove", "ro_delete", "ro_callback",
     "ro_callback_ret", "lk_make", "lk_front", "lk_next"}

\* The statements at which the list is already changed and the map is not.
HalfUpdatedPcs == {"set_store", "rm_delete", "ro_delete"}

Inside(t) == callers[t].pc \in AccessPcs

\* The elements the list, the map or a caller's local still refer to.
ConcLive(q, lk, cs) ==
    (Range(q) \cup Range(lk) \cup {cs[t].item : t \in Callers}
        \cup {cs[t].outer.item : t \in Callers}) \ {0}

\* One statement of caller t: the fields it leaves, unreachable elements gone.
Statement(q, vl, lk, cs) ==
    /\ queue' = q
    /\ lookup' = lk
    /\ callers' = cs
    /\ val' = [e \in ConcLive(q, lk, cs) |-> vl[e]]
    /\ UNCHANGED <<impl, capacity, last, evictions, accessOrder, script>>

At(t, l) == [callers EXCEPT ![t].pc = l]

\* The call a caller makes: of a method that locks, it starts at the Lock.
Enter(op, k, v) ==
    [Idle EXCEPT !.pc = IF Locks(impl, op) THEN "lock" ELSE Entry(op),
                 !.op = op, !.key = k, !.value = v]

\* The frame of a call, to suspend it while its callback calls the cache.
FrameOf(c) ==
    [pc |-> c.pc, op |-> c.op, key |-> c.key, value |-> c.value,
     item |-> c.item, evicted |-> c.evicted, ret |-> c.ret, i |-> c.i]

\* The suspended call goes on after c.onEviction.
Resume(f) ==
    [pc |-> "ro_callback_ret", op |-> f.op, key |-> f.key, value |-> f.value,
     item |-> f.item, evicted |-> f.evicted, ret |-> f.ret, i |-> f.i,
     outer |-> NoFrame]

\* The call of caller t is over: back in the callback that made it, if any.
Finish(t) ==
    IF callers[t].outer = NoFrame THEN Idle ELSE Resume(callers[t].outer)

\* The method returns: the deferred Unlock runs if the method took the mutex.
Returned(t) ==
    IF Locks(impl, callers[t].op)
    THEN [callers EXCEPT ![t].pc = "unlock", ![t].item = 0,
                         ![t].ret = <<>>, ![t].i = 0]
    ELSE [callers EXCEPT ![t] = Finish(t)]

Invoke(t, op, k, v) ==
    /\ callers[t].pc = "idle"
    /\ op = "ListKeys" => impl = "v2"
    /\ Statement(queue, val, lookup, [callers EXCEPT ![t] = Enter(op, k, v)])
    /\ UNCHANGED mutex

Lock(t) ==
    /\ callers[t].pc = "lock"
    /\ mutex = 0
    /\ mutex' = t
    /\ Statement(queue, val, lookup, At(t, Entry(callers[t].op)))

Unlock(t) ==
    /\ callers[t].pc = "unlock"
    /\ mutex' = 0
    /\ Statement(queue, val, lookup, [callers EXCEPT ![t] = Finish(t)])

\* if item, ok := c.lookup[key]; ok
SetFind(t) ==
    /\ callers[t].pc = "set_find"
    /\ Statement(queue, val, lookup,
                 IF callers[t].key \in DOMAIN lookup
                 THEN [callers EXCEPT ![t].pc = "set_move",
                                      ![t].item = lookup[callers[t].key]]
                 ELSE At(t, "set_push"))
    /\ UNCHANGED mutex

\* c.queue.MoveToFront(item)
SetMove(t) ==
    /\ callers[t].pc = "set_move"
    /\ Statement(MoveToFront(queue, callers[t].item), val, lookup,
                 At(t, "set_value"))
    /\ UNCHANGED mutex

\* item.Value = &entry{...}; part_000 returns here, lru.go goes on
SetValue(t) ==
    /\ callers[t].pc = "set_value"
    /\ Statement(queue,
                 [val EXCEPT ![callers[t].item] =
                    entry(callers[t].key, callers[t].value)],
                 lookup,
                 IF impl = "v2" THEN Returned(t) ELSE At(t, "set_push"))
    /\ UNCHANGED mutex

\* item := c.queue.PushFront(&entry{...})
SetPush(t) ==
    /\ callers[t].pc = "set_push"
    /\ LET item == NewElement(DOMAIN val)
       IN  Statement(PushFront(queue, item),
                     [e \in DOMAIN val \cup {item} |->
                        IF e = item THEN entry(callers[t].key, callers[t].value)
                        ELSE val[e]],
                     lookup,
                     [callers EXCEPT ![t].pc = "set_store", ![t].item = item])
    /\ UNCHANGED mutex

\* c.lookup[key] = item
SetStore(t) ==
    /\ callers[t].pc = "set_store"
    /\ Statement(queue, val, MapSet(lookup, callers[t].key, callers[t].item),
                 At(t, "set_len"))
    /\ UNCHANGED mutex

\* if c.queue.Len() > c.capacity { removeOldest }
SetLen(t) ==
    /\ callers[t].pc = "set_len"
    /\ Statement(queue, val, lookup,
                 IF Len(queue) > capacity
                 THEN [callers EXCEPT ![t].pc = "ro_len", ![t].item = 0]
                 ELSE Returned(t))
    /\ UNCHANGED mutex

\* if c.queue.Len() == 0 { return nil, false }
RoLen(t) ==
    /\ callers[t].pc = "ro_len"
    /\ Statement(queue, val, lookup,
                 IF Len(queue) = 0 THEN Returned(t) ELSE At(t, "ro_back"))
    /\ UNCHANGED mutex

\* tail := c.queue.Back(): nil when the list is empty by now
RoBack(t) ==
    /\ callers[t].pc = "ro_back"
    /\ Statement(queue, val, lookup,
                 [callers EXCEPT ![t].pc = "ro_remove",
                                 ![t].item = IF Len(queue) = 0 THEN 0
                                             ELSE Back(queue)])
    /\ UNCHANGED mutex

\* The process has stopped: a panic or a fatal error of the runtime.
Crashed == [t \in Callers |-> [Idle EXCEPT !.pc = "crashed"]]

\* c.queue.Remove(tail): a nil tail is dereferenced and the call panics
RoRemove(t) ==
    /\ callers[t].pc = "ro_remove"
    /\ IF callers[t].item = 0
       THEN Statement(queue, val, lookup, Crashed)
       ELSE Statement(ListRemove(queue, callers[t].item), val, lookup,
                      At(t, "ro_delete"))
    /\ UNCHANGED mutex

\* delete(c.lookup, tail.Value.(*entry).key)
RoDelete(t) ==
    /\ callers[t].pc = "ro_delete"
    /\ Statement(queue, val, MapDelete(lookup, val[callers[t].item].key),
                 At(t, "ro_callback"))
    /\ UNCHANGED mutex

\* c.onEviction(key, value), a callback that does not call the cache;
\* return value, true
RoCallback(t) ==
    /\ callers[t].pc = "ro_callback"
    /\ Statement(queue, val, lookup,
                 [Returned(t) EXCEPT ![t].evicted =
                    IF Returned(t)[t].pc = "unlock"
                    THEN Append(callers[t].evicted, val[callers[t].item])
                    ELSE Returned(t)[t].evicted])
    /\ UNCHANGED mutex

\* c.onEviction(key, value), a callback that calls a public method of the
\* same cache on the same goroutine (one level deep).
Reenter(t, op, k, v) ==
    /\ callers[t].pc = "ro_callback"
    /\ callers[t].outer = NoFrame
    /\ op = "ListKeys" => impl = "v2"
    /\ Statement(queue, val, lookup,
                 [callers EXCEPT ![t] =
                    [Enter(op, k, v) EXCEPT !.outer = FrameOf(callers[t])]])
    /\ UNCHANGED mutex

\* return value, true after a callback that called the cache
RoCallbackReturn(t) ==
    /\ callers[t].pc = "ro_callback_ret"
    /\ Statement(queue, val, lookup, Returned(t))
    /\ UNCHANGED mutex

\* if item, ok := c.lookup[key]; ok
GetFind(t) ==
    /\ callers[t].pc = "get_find"
    /\ Statement(queue, val, lookup,
                 IF callers[t].key \in DOMAIN lookup
                 THEN [callers EXCEPT ![t].pc = "get_move",
                                      ![t].item = lookup[callers[t].key]]
                 ELSE Returned(t))
    /\ UNCHANGED mutex

\* c.queue.MoveToFront(item); return item.Value, true
GetMove(t) ==
    /\ callers[t].pc = "get_move"
    /\ Statement(MoveToFront(queue, callers[t].item), val, lookup, Returned(t))
    /\ UNCHANGED mutex

\* if item, ok := c.lookup[key]; ok
RmFind(t) ==
    /\ callers[t].pc = "rm_find"
    /\ Statement(queue, val, lookup,
                 IF callers[t].key \in DOMAIN lookup
                 THEN [callers EXCEPT ![t].pc = "rm_remove",
                                      ![t].item = lookup[callers[t].key]]
                 ELSE Returned(t))
    /\ UNCHANGED mutex

\* c.queue.Remove(item)
RmRemove(t) ==
    /\ callers[t].pc = "rm_remove"
    /\ Statement(ListRemove(queue, callers[t].item), val, lookup,
                 At(t, "rm_delete"))
    /\ UNCHANGED mutex

\* delete(c.lookup, key); return value, true
RmDelete(t) ==
    /\ callers[t].pc = "rm_delete"
    /\ Statement(queue, val, MapDelete(lookup, callers[t].key), Returned(t))
    /\ UNCHANGED mutex

\* Element.Next: nil after the last element and for an element of no list.
ElementNext(q, e) ==
    IF InList(q, e) /\ IndexOf(q, e) < Len(q) THEN q[IndexOf(q, e) + 1] ELSE 0

\* ret := make([]interface{}, c.queue.Len())
LkMake(t) ==
    /\ callers[t].pc = "lk_make"
    /\ Statement(queue, val, lookup,
                 [callers EXCEPT ![t].pc = "lk_front",
                                 ![t].ret = [j \in 1..Len(queue) |-> ""]])
    /\ UNCHANGED mutex

\* i, item := 0, c.queue.Front()
LkFront(t) ==
    /\ callers[t].pc = "lk_front"
    /\ Statement(queue, val, lookup,
                 [callers EXCEPT ![t].pc = "lk_next", ![t].i = 0,
                                 ![t].item = IF Len(queue) = 0 THEN 0
                                             ELSE queue[1]])
    /\ UNCHANGED mutex

\* item != nil; ret[i] = item.Value.(*entry).key; i, item = i+1, item.Next():
\* an index past the end of ret panics
LkNext(t) ==
    /\ callers[t].pc = "lk_next"
    /\ Statement(queue, val, lookup,
                 IF callers[t].item = 0 THEN At(t, "lk_return")
                 ELSE IF callers[t].i >= Len(callers[t].ret) THEN Crashed
                 ELSE [callers EXCEPT
                         ![t].ret[callers[t].i + 1] = val[callers[t].item].key,
                         ![t].i = callers[t].i + 1,
                         ![t].item = ElementNext(queue, callers[t].item)])
    /\ UNCHANGED mutex

\* return ret
LkReturn(t) ==
    /\ callers[t].pc = "lk_return"
    /\ Statement(queue, val, lookup, Returned(t))
    /\ UNCHANGED mutex

\* The statements that read c.lookup and those that write it.
MapReadPcs == {"set_find", "get_find", "rm_find"}

MapWritePcs == {"set_store", "rm_delete", "ro_delete"}

\* A goroutine writes the map while another reads or writes it: the Go
\* runtime may stop the process ("concurrent map read and map write",
\* "concurrent map writes").
RaceFault ==
    /\ \E t, u \in Callers :
          /\ t # u
          /\ callers[t].pc \in MapWritePcs
          /\ callers[u].pc \in MapReadPcs \cup MapWritePcs
    /\ Statement(queue, val, lookup, Crashed)
    /\ UNCHANGED mutex

InitConc == Init /\ capacity \in ConcCapacities

\* The statements of Set, Get, Remove and removeOldest, run by the callers T.
Statements(T) ==
    \/ \E t \in T : Lock(t)
    \/ \E t \in T : Unlock(t)
    \/ \E t \in T : SetFind(t)
    \/ \E t \in T : SetMove(t)
    \/ \E t \in T : SetValue(t)
    \/ \E t \in T : SetPush(t)
    \/ \E t \in T : SetStore(t)
    \/ \E t \in T : SetLen(t)
    \/ \E t \in T : RoLen(t)
    \/ \E t \in T : RoBack(t)
    \/ \E t \in T : RoRemove(t)
    \/ \E t \in T : RoDelete(t)
    \/ \E t \in T : RoCallback(t)
    \/ \E t \in T : GetFind(t)
    \/ \E t \in T : GetMove(t)
    \/ \E t \in T : RmFind(t)
    \/ \E t \in T : RmRemove(t)
    \/ \E t \in T : RmDelete(t)

\* The statements of ListKeys.
ListKeysStatements(T) ==
    \/ \E t \in T : LkMake(t)
    \/ \E t \in T : LkFront(t)
    \/ \E t \in T : LkNext(t)
    \/ \E t \in T : LkReturn(t)

\* Calls of Set, Get and Remove.
CallSetGetRemove(T) ==
    \/ \E t \in T, k \in ConcKeys, v \in ConcValues : Invoke(t, "Set", k, v)
    \/ \E t \in T, k \in ConcKeys : Invoke(t, "Get", k, "")
    \/ \E t \in T, k \in ConcKeys : Invoke(t, "Remove", k, "")

CallRemoveOldest(T) == \E t \in T : Invoke(t, "RemoveOldest", "", "")

CallListKeys(T) == \E t \in T : Invoke(t, "ListKeys", "", "")

\* Every public method, called under the mutex or not as the code has it.
Methods(T) ==
    \/ CallSetGetRemove(T)
    \/ CallRemoveOldest(T)
    \/ CallListKeys(T)
    \/ Statements(T)
    \/ ListKeysStatements(T)

NextSetGetRemove == CallSetGetRemove(Callers) \/ Statements(Callers) \/ RaceFault

NextConc == Methods(Callers) \/ RaceFault

SpecConc == InitConc /\ [][NextConc]_vars

\* The Cache of part_000 alone: every access is under the mutex, no data race.
InitConcV2 == Init /\ impl = "v2" /\ capacity \in 1..MaxLockedCap

NextConcV2 == Methods(Callers)

SpecConcV2 == InitConcV2 /\ [][NextConcV2]_vars

\* The scheduler runs every goroutine that can take a step, and the mutex is
\* fair: a goroutine that can take it again and again takes it at last.
Fairness ==
    \A t \in Callers :
        /\ WF_vars(Statements({t}) \/ ListKeysStatements({t}))
        /\ SF_vars(Lock(t))

FairSpecConcV2 == SpecConcV2 /\ Fairness

\* Callbacks that call the cache they are called from.
CallbackCalls(T) ==
    \/ \E t \in T, k \in ConcKeys, v \in ConcValues : Reenter(t, "Set", k, v)
    \/ \E t \in T, k \in ConcKeys : Reenter(t, "Get", k, "")
    \/ \E t \in T, k \in ConcKeys : Reenter(t, "Remove", k, "")
    \/ \E t \in T : Reenter(t, "RemoveOldest", "", "")
    \/ \E t \in T : Reenter(t, "ListKeys", "", "")
    \/ \E t \in T : RoCallbackReturn(t)

\* One goroutine calls the cache, with callbacks that may call it again.
Goroutine == {1}

NextReentrant == Methods(Goroutine) \/ CallbackCalls(Goroutine)

SpecReentrant == InitConc /\ [][NextReentrant]_vars

\* Concurrent callers of Set, Get and Remove.
SpecSetGetRemove == InitConc /\ [][NextSetGetRemove]_vars

\* ------------------------------------------------------------ observations
\* The entries of the list, front first.
Entries(q, vl) == [i \in 1..Len(q) |-> vl[q[i]]]

ListKeysOf(q, vl) == [i \in 1..Len(q) |-> vl[q[i]].key]

NoDuplicates(s) == \A i, j \in 1..Len(s) : s[i] = s[j] => i = j

Front(s) == SubSeq(s, 1, Len(s) - 1)

\* The keys of set S in the order of their last access, newest first.
ByAccess(S) == SelectSeq(accessOrder, LAMBDA k : k \in S)

\* The step just taken is a call of op.
Called(op) == last'.op = op /\ vars' # vars

\* ---------------------------------------------------------------- C1
\* C1: with capacity >= 1, after every completed call the recency list holds
\* at most capacity entries.
CapacityInvariant == capacity >= 1 => Len(queue) <= capacity

\* A Set overflowed a full cache, evicted, and left it full.
CapacityWitness ==
    /\ capacity >= 1
    /\ last.op = "Set"
    /\ evictions # <<>>
    /\ Len(queue) = capacity

\* ---------------------------------------------------------------- C2
\* C2: after every completed call a key is in the index exactly when an entry
\* with that key is in the list, the index entry of a key points to the list
\* entry holding that key, and no key occurs twice in the list.
IndexMatchesList ==
    /\ DOMAIN lookup = Range(ListKeysOf(queue, val))
    /\ \A k \in DOMAIN lookup :
          InList(queue, lookup[k]) /\ val[lookup[k]].key = k
    /\ NoDuplicates(ListKeysOf(queue, val))

\* ---------------------------------------------------------------- C3
\* C3: when Set of an absent key overflows the capacity, the evicted entry is
\* the stored key whose last access (Set or successful Get) is the oldest; on
\* a capacity-2 cache Set(a), Set(b), Get(a), Set(c) evicts b and keeps a and
\* c, and so does Set(a), Set(b), Set(a), Set(c).
EvictsOldestAccess ==
    \A k \in Keys :
        (/\ Called("Set") /\ last'.key = k
         /\ k \notin DOMAIN lookup
         /\ Len(queue) + 1 > capacity)
        => LET stored == DOMAIN lookup \cup {k}
               order  == SelectSeq(Touch(accessOrder, k), LAMBDA x : x \in stored)
               victim == order[Len(order)]
           IN  /\ Len(evictions') = 1
               /\ evictions'[1].key = victim
               /\ DOMAIN lookup' = stored \ {victim}

ScenarioGetPromotes ==
    (/\ capacity = 2
     /\ Shape(script) = <<<<"Set", "a">>, <<"Set", "b">>, <<"Get", "a">>,
                          <<"Set", "c">>>>)
    => /\ Len(evictions) = 1 /\ evictions[1].key = "b"
       /\ DOMAIN lookup = {"a", "c"}
       /\ Range(ListKeysOf(queue, val)) = {"a", "c"}

ScenarioSetPromotes ==
    (/\ capacity = 2
     /\ Shape(script) = <<<<"Set", "a">>, <<"Set", "b">>, <<"Set", "a">>,
                          <<"Set", "c">>>>)
    => /\ Len(evictions) = 1 /\ evictions[1].key = "b"
       /\ DOMAIN lookup = {"a", "c"}
       /\ Range(ListKeysOf(queue, val)) = {"a", "c"}

RecencyCorrectness ==
    /\ [][EvictsOldestAccess]_vars
    /\ [](ScenarioGetPromotes /\ ScenarioSetPromotes)

RecencyWitness ==
    /\ capacity = 2
    /\ Shape(script) = <<<<"Set", "a">>, <<"Set", "b">>, <<"Get", "a">>,
                         <<"Set", "c">>>>
    /\ Len(evictions) = 1

\* ---------------------------------------------------------------- C4
\* C4: a Set of an absent key that makes the list longer than a capacity >= 1
\* evicts exactly one entry, the one at the least-recently-used end: it leaves
\* list and index and onEviction is invoked once, with its key and value.  A
\* Set that does not exceed the capacity invokes onEviction zero times.  With
\* capacity 1, Set(a,foo); Set(b,bar) evicts (a,foo), and then a is not found
\* and b is found.
SetEvictsOne ==
    \A k \in Keys :
        (Called("Set") /\ last'.key = k /\ capacity >= 1)
        => IF k \notin DOMAIN lookup /\ Len(queue) + 1 > capacity
           THEN LET victim == val[Back(queue)]
                IN  /\ evictions' = <<victim>>
                    /\ victim.key = ByAccess(DOMAIN lookup)[Cardinality(DOMAIN lookup)]
                    /\ Entries(queue', val')
                         = <<entry(k, last'.value)>> \o Front(Entries(queue, val))
                    /\ DOMAIN lookup' = (DOMAIN lookup \cup {k}) \ {victim.key}
                    /\ victim.key \notin Range(ListKeysOf(queue', val'))
           ELSE evictions' = <<>>

ScenarioEndToEnd ==
    (capacity = 1 /\ script = <<Call("Set", "a", "foo"), Call("Set", "b", "bar")>>)
    => /\ evictions = <<entry("a", "foo")>>
       /\ ~GetResult(Cache, "a").ok
       /\ GetResult(Cache, "b").ok

ExactlyOneEviction == [][SetEvictsOne]_vars /\ []ScenarioEndToEnd

ExactlyOneEvictionWitness ==
    /\ capacity = 1
    /\ script = <<Call("Set", "a", "foo"), Call("Set", "b", "bar")>>
    /\ evictions = <<entry("a", "foo")>>

\* ---------------------------------------------------------------- C5
\* C5: Set(k, v1) followed by Set(k, v2) leaves exactly one entry for k, with
\* value v2, at the most-recently-used position, and invokes no onEviction.
UpdateInPlace ==
    [][\A k \in Keys :
          (/\ capacity >= 1
           /\ last.op = "Set" /\ last.key = k
           /\ Called("Set") /\ last'.key = k)
          => /\ Cardinality({i \in 1..Len(queue') : val'[queue'[i]].key = k}) = 1
             /\ k \in DOMAIN lookup'
             /\ val'[queue'[1]] = entry(k, last'.value)
             /\ lookup'[k] = queue'[1]
             /\ evictions' = <<>>]_vars

\* ---------------------------------------------------------------- C6
\* C6: Get of a present key returns (v, true), v being the value most recently
\* passed to Set for that key, and moves the key to the most-recently-used
\* position; after Set(b, bar), Get(b) returns (bar, true).
GetReturnsValue ==
    (last.op = "Get" /\ last.ok)
    => /\ last.key \in DOMAIN lookup
       /\ queue[1] = lookup[last.key]
       /\ last.ret = PlainValue(val[lookup[last.key]].value)

\* ---------------------------------------------------------------- C7
\* C7: Remove of a present key takes the entry out of list and index, returns
\* (its stored value, true), never invokes onEviction, leaves the other
\* entries and their order unchanged; a Get of the key right after it reports
\* not found.
RemoveStep ==
    \A k \in Keys :
        (Called("Remove") /\ last'.key = k /\ k \in DOMAIN lookup)
        => LET at == IndexOf(queue, lookup[k])
           IN  /\ Entries(queue', val')
                    = SubSeq(Entries(queue, val), 1, at - 1)
                      \o SubSeq(Entries(queue, val), at + 1, Len(queue))
               /\ DOMAIN lookup' = DOMAIN lookup \ {k}
               /\ \A j \in DOMAIN lookup' : val'[lookup'[j]] = val[lookup[j]]
               /\ last'.ret = PlainValue(val[lookup[k]].value)
               /\ last'.ok
               /\ evictions' = <<>>
               /\ ~GetResult(CacheOf(queue', val', lookup'), k).ok

RemoveDeletes == [][RemoveStep]_vars

RemoveWitness ==
    /\ last.op = "Remove"
    /\ last.ok
    /\ last.ret = PlainValue("foo")
    /\ Len(queue) >= 2

\* ---------------------------------------------------------------- C8
\* C8: RemoveOldest on a non-empty cache removes the entry at the
\* least-recently-used end from list and index, invokes onEviction once with
\* its key and value and returns (its value, true); on an empty cache it
\* returns (nil, false), invokes nothing and changes nothing.
RemoveOldestStep ==
    Called("RemoveOldest")
    => IF Len(queue) > 0
       THEN LET tail == val[Back(queue)]
            IN  /\ Entries(queue', val') = Front(Entries(queue, val))
                /\ DOMAIN lookup' = DOMAIN lookup \ {tail.key}
                /\ \A j \in DOMAIN lookup' : val'[lookup'[j]] = val[lookup[j]]
                /\ evictions' = <<tail>>
                /\ last'.ret = PlainValue(tail.value)
                /\ last'.ok
       ELSE /\ last'.ret = NilValue
            /\ ~last'.ok
            /\ evictions' = <<>>
            /\ UNCHANGED <<queue, val, lookup>>

RemoveOldestEvicts == [][RemoveOldestStep]_vars

RemoveOldestWitness ==
    /\ last.op = "RemoveOldest"
    /\ last.ok
    /\ Len(evictions) = 1
    /\ Len(queue) >= 1

\* ---------------------------------------------------------------- C9
\* C9: ListKeys returns every stored key exactly once, most recently used
\* first according to the Set/Get access history, and leaves list and index
\* unchanged; after Set(a), Set(b), Set(c) it returns [c, b, a].
ListKeysResultOrdered ==
    last.op = "ListKeys"
    => /\ last.keys = ByAccess(DOMAIN lookup)
       /\ NoDuplicates(last.keys)
       /\ Range(last.keys) = DOMAIN lookup

ScenarioListKeys ==
    (/\ capacity >= 3
     /\ Shape(script) = <<<<"Set", "a">>, <<"Set", "b">>, <<"Set", "c">>,
                          <<"ListKeys", "">>>>)
    => last.keys = <<"c", "b", "a">>

ListKeysStep == Called("ListKeys") => UNCHANGED <<queue, val, lookup>>

ListKeysOrder ==
    /\ [](ListKeysResultOrdered /\ ScenarioListKeys)
    /\ [][ListKeysStep]_vars

ListKeysWitness ==
    /\ capacity = 3
    /\ last.op = "ListKeys"
    /\ last.keys = <<"c", "b", "a">>
    /\ Len(script) = 4

\* ---------------------------------------------------------------- C10
\* C10: every public method holds the one mutex from its first read of list
\* or index to its last write, the onEviction call included, so no two
\* callers are inside such accesses at once and none sees list and index half
\* updated by another.
LockCoversOperation ==
    /\ \A t \in Callers : Inside(t) => mutex = t
    /\ \A t, u \in Callers : (t # u /\ Inside(t)) => ~Inside(u)
    /\ \A t, u \in Callers :
          (t # u /\ callers[u].pc \in HalfUpdatedPcs) => ~Inside(t)

\* The same, of the Cache of part_000 alone.
LockCoversOperationV2 == impl = "v2" => LockCoversOperation

\* ---------------------------------------------------------------- C11
\* C11: with two or more concurrent callers, whenever no caller is inside a
\* call every key of the index resolves to a list entry holding that key and
\* every list entry's key is in the index: no interleaving leaves a dangling
\* index entry, an orphaned list entry or a duplicate key.
Quiescent == mutex = 0 /\ \A t \in Callers : callers[t].pc \in {"idle", "lock"}

ConcurrentIndexMatchesList == Quiescent => IndexMatchesList

\* The part of it no single caller can break: no dangling index entry.
NoDanglingIndex == Quiescent => \A k \in DOMAIN lookup : InList(queue, lookup[k])

\* The same, of the Cache of part_000 alone.
ConcurrentIndexMatchesListV2 == impl = "v2" => ConcurrentIndexMatchesList

\* ---------------------------------------------------------------- C12
\* The calls so far are Sets of distinct keys, no more than the capacity, then
\* at least one RemoveOldest.
FifoRun ==
    /\ script # Untracked
    /\ IsFifo(Shape(script))
    /\ Cardinality(Sets(Shape(script))) <= capacity
    /\ Len(script) > Cardinality(Sets(Shape(script)))

\* C12: after Sets of distinct keys that do not exceed the capacity, with no
\* Get and no second Set of a key, the j-th RemoveOldest returns the value of
\* the j-th Set and hands that entry to the callback; once all are removed
\* RemoveOldest reports nothing.
RemoveOldestFifo ==
    FifoRun =>
        LET n == Cardinality(Sets(Shape(script)))
            j == Len(script) - n
        IN  IF j <= n
            THEN /\ last.op = "RemoveOldest"
                 /\ last.ok
                 /\ last.ret = PlainValue(script[j].value)
                 /\ evictions = <<entry(script[j].key, script[j].value)>>
            ELSE /\ ~last.ok
                 /\ last.ret = NilValue
                 /\ evictions = <<>>

\* Keys a, b, c at capacity 3: a first, then b, then c.
ScenarioFifo ==
    (/\ capacity = 3
     /\ Len(script) > 3
     /\ IsPrefix(Shape(script),
                 <<<<"Set", "a">>, <<"Set", "b">>, <<"Set", "c">>,
                   <<"RemoveOldest", "">>, <<"RemoveOldest", "">>,
                   <<"RemoveOldest", "">>>>))
        => /\ last.ok
           /\ last.ret = PlainValue(script[Len(script) - 3].value)
           /\ evictions[1].key = <<"a", "b", "c">>[Len(script) - 3]

FifoOrder == RemoveOldestFifo /\ ScenarioFifo

FifoWitness ==
    /\ capacity = 3
    /\ Shape(script) = <<<<"Set", "a">>, <<"Set", "b">>, <<"Set", "c">>,
                         <<"RemoveOldest", "">>, <<"RemoveOldest", "">>,
                         <<"RemoveOldest", "">>>>
    /\ script[1].value # script[3].value
    /\ last.ret = PlainValue(script[3].value)
    /\ FifoRun

\* ---------------------------------------------------------------- C13
\* Caller t is about to run c.onEviction for the element it removed.
AtCallback(t) == callers[t].pc = "ro_callback"

\* C13: whenever the eviction callback is invoked for an entry, the entry is
\* already out of the list and its key out of the index, and the cache the
\* callback sees is consistent and does not hold the evicted key.
CallbackAfterRemoval ==
    \A t \in Callers :
        AtCallback(t) =>
            /\ ~InList(queue, callers[t].item)
            /\ val[callers[t].item].key \notin DOMAIN lookup
            /\ \A e \in Range(queue) : val[e].key # val[callers[t].item].key
            /\ IndexMatchesList

\* The same, of the Cache of part_000 alone.
CallbackAfterRemovalV2 == impl = "v2" => CallbackAfterRemoval

\* The order of the statements alone: the element and its index entry are
\* gone when a caller that holds the mutex reaches the callback.
CallbackAfterElementRemoval ==
    \A t \in Callers :
        (AtCallback(t) /\ mutex = t) =>
            /\ ~InList(queue, callers[t].item)
            /\ \A k \in DOMAIN lookup : lookup[k] # callers[t].item

\* ---------------------------------------------------------------- C14
\* C14, its finite part: no call is cut short by a panic or a fatal error, a
\* caller that is in no call or waits for the mutex does not hold it, and
\* the mutex is only ever held by a caller that is running its method, so a
\* caller waiting for the mutex never waits for itself or for a finished
\* call.
OperationsReturn ==
    /\ \A t \in Callers : callers[t].pc # "crashed"
    /\ \A t \in Callers : callers[t].pc \in {"idle", "lock"} => mutex # t
    /\ mutex # 0 => callers[mutex].pc \notin {"idle", "lock", "crashed"}

\* The same, of the Cache of part_000 alone.
OperationsReturnV2 == impl = "v2" => OperationsReturn

\* Under a fair scheduler and a fair mutex every call of part_000 returns
\* with the mutex released by it.
EveryCallReturns ==
    \A t \in Callers :
        (callers[t].pc # "idle") ~> (callers[t].pc = "idle" /\ mutex # t)

\* ---------------------------------------------------------------- C15
\* Caller t is in a call that its own eviction callback made.
InCallbackCall(t) == callers[t].outer # NoFrame

\* C15: the eviction callback runs on the caller's goroutine while the caller
\* holds the mutex, so a public method the callback calls on the same cache
\* stays at its Lock for ever: the mutex it waits for is held by the very
\* call that waits for the callback.
CallbackDeadlocks ==
    \A t \in Callers :
        /\ (AtCallback(t) \/ InCallbackCall(t)) => mutex = t
        /\ InCallbackCall(t) => callers[t].pc = "lock"

\* The same, of the Cache of part_000 alone.
CallbackDeadlocksV2 == impl = "v2" => CallbackDeadlocks

\* A call made by a callback of part_000 never takes a step.
CallbackCallStuckV2 ==
    [][\A t \in Callers :
          (impl = "v2" /\ InCallbackCall(t)) => callers'[t] = callers[t]]_vars

\* ---------------------------------------------------------------- C16
\* Caller t is in ListKeys, past the make of its result.
InListKeys(t) == callers[t].pc \in {"lk_front", "lk_next", "lk_return"}

\* C16: while a ListKeys call builds its result no other caller is partway
\* through an operation and the list stays the one the result was sized
\* for; the keys filled in so far are the first keys of the recency order,
\* and the result it returns is the whole recency order of that one state.
ListKeysSnapshot ==
    \A t \in Callers :
        InListKeys(t) =>
            /\ \A u \in Callers \ {t} : callers[u].pc \in {"idle", "lock"}
            /\ Len(callers[t].ret) = Len(queue)
            /\ \A j \in 1..callers[t].i :
                   callers[t].ret[j] = ListKeysOf(queue, val)[j]
            /\ callers[t].pc = "lk_return" =>
                   callers[t].ret = ListKeysOf(queue, val)

\* ListKeys is about to return a key while the other caller has called a
\* mutating operation and waits.
ListKeysSnapshotWitness ==
    \E t \in Callers, u \in Callers :
        /\ t # u
        /\ callers[t].pc = "lk_return"
        /\ callers[t].ret = <<"b", "a">>
        /\ callers[u].pc = "lock"
        /\ callers[u].op \in {"Set", "Remove", "RemoveOldest"}

\* ---------------------------------------------------------------- C17
\* C17: Get and Remove of a key that is not in the index return (nil, false),
\* call no eviction callback and leave the list, the elements and the index
\* as they were.
AbsentKeyStep ==
    \A k \in Keys :
        ((Called("Get") \/ Called("Remove")) /\ last'.key = k
            /\ k \notin DOMAIN lookup)
        => /\ last'.ret = NilValue
           /\ ~last'.ok
           /\ evictions' = <<>>
           /\ UNCHANGED <<queue, val, lookup, accessOrder>>

AbsentKeyNoEffect == [][AbsentKeyStep]_vars

\* A Remove of an absent key has returned on a cache that holds two keys.
AbsentKeyWitness ==
    /\ last.op = "Remove"
    /\ ~last.ok
    /\ last.key \notin DOMAIN lookup
    /\ Len(queue) = 2
    /\ Cardinality(DOMAIN lookup) = 2

\* ---------------------------------------------------------------- C18
\* C18: with capacity 0 the cache is empty between calls, and a Set(k, v)
\* evicts the entry it has just inserted: the callback is called once, with
\* (k, v), the list and the index are empty again and Get(k) finds nothing.
ZeroCapacitySet ==
    capacity = 0 =>
        /\ queue = <<>>
        /\ DOMAIN lookup = {}
        /\ last.op = "Set" =>
              /\ evictions = <<entry(last.key, last.value)>>
              /\ ~GetResult(Cache, last.key).ok
              /\ GetResult(Cache, last.key).ret = NilValue

ZeroCapacityWitness ==
    /\ capacity = 0
    /\ last.op = "Set"
    /\ evictions = <<entry("a", "foo")>>
    /\ "a" \notin DOMAIN lookup

\* ---------------------------------------------------------------- C19
\* C19: with a capacity of at least 1, right after Set(k, v) returns the key
\* k is present (Get(k) finds it) and its entry is at the front of the list,
\* the most recently used position.
SetMakesPresent ==
    (capacity >= 1 /\ last.op = "Set") =>
        /\ last.key \in DOMAIN lookup
        /\ GetResult(Cache, last.key).ok
        /\ queue # <<>>
        /\ lookup[last.key] = queue[1]
        /\ val[queue[1]] = entry(last.key, last.value)

\* The same, of the Cache of part_000 alone.
SetMakesPresentV2 == impl = "v2" => SetMakesPresent

\* ---------------------------------------------------------------- C20
\* The keys of the list other than k, most recently used first.
OtherKeys(k) == SelectSeq(ListKeysOf(queue, val), LAMBDA x : x # k)

\* C20 (lru.go): when the index holds capacity-many keys, two or more, a Set
\* of a key that is present makes the least recently used of the other keys
\* disappear: it leaves the list and the index, the callback gets its entry
\* and Get does not find it, while the key that was set stays, with the new
\* value, at the front.
SetPresentEvictsStep ==
    \A k \in Keys :
        (/\ Called("Set") /\ last'.key = k
         /\ k \in DOMAIN lookup
         /\ Cardinality(DOMAIN lookup) = capacity
         /\ capacity >= 2)
        => LET victim == OtherKeys(k)[Len(OtherKeys(k))]
           IN  /\ victim = ByAccess(DOMAIN lookup \ {k})[capacity - 1]
               /\ victim \notin DOMAIN lookup'
               /\ victim \notin Range(ListKeysOf(queue', val'))
               /\ Len(evictions') = 1 /\ evictions'[1].key = victim
               /\ ~GetResult(CacheOf(queue', val', lookup'), victim).ok
               /\ k \in DOMAIN lookup'
               /\ lookup'[k] = queue'[1]
               /\ val'[queue'[1]] = entry(k, last'.value)

\* TestSetOverwriteAndBumpRecentlyUsed of the first test file: capacity 2,
\* Set a, Set b, Set a again, and Get(b) finds nothing.
ScenarioSetOverwrite ==
    /\ (capacity = 2 /\ Shape(script) = <<<<"Set", "a">>, <<"Set", "b">>,
                                           <<"Set", "a">>>>)
          => /\ "b" \notin DOMAIN lookup
             /\ evictions[1].key = "b"
    /\ (capacity = 2 /\ Shape(script) = <<<<"Set", "a">>, <<"Set", "b">>,
                                           <<"Set", "a">>, <<"Get", "b">>>>)
          => /\ last.op = "Get"
             /\ ~last.ok

SetPresentEvicts == [][SetPresentEvictsStep]_vars /\ []ScenarioSetOverwrite

SetPresentEvictsWitness ==
    /\ impl = "lru"
    /\ capacity = 2
    /\ Shape(script) = <<<<"Set", "a">>, <<"Set", "b">>, <<"Set", "a">>,
                         <<"Get", "b">>>>
    /\ ~last.ok
    /\ "a" \in DOMAIN lookup

====
